---- MODULE Spec2Model ----
(***************************************************************************)
(* The editor session of components/image-editor/image-editor.tsx          *)
(* (ImageEditor): the React state of the component, its event handlers and *)
(* the completions of the asynchronous work they start (FileReader reads   *)
(* and Image decodes).  A handler runs to completion on the state of the   *)
(* latest render; a completion callback uses the values its closure        *)
(* captured when the handler that created it ran.                          *)
(***************************************************************************)
EXTENDS Integers, Sequences, FiniteSets, TLC

VARIABLES
  image,               \* useState<string | null>: the data URL shown
  originalImage,       \* useState<string | null>
  imageState,          \* useState<ImageState>
  history,             \* useState<ImageState[]>
  historyIndex,        \* useState(0), 0-based as in the code
  isCropping,          \* useState(false)
  cropStart,           \* useState<{x, y} | null>
  cropEnd,             \* useState<{x, y} | null>
  resizeWidth,         \* useState<number>(0)
  resizeHeight,        \* useState<number>(0)
  originalDimensions,  \* useState({ width: 0, height: 0 })
  maintainAspectRatio, \* useState(true)
  pending,             \* the reads and decodes in flight, with what their callbacks captured
  latestLoad,          \* history variable: the file of the most recently triggered load
  lastOp               \* history variable: the last handler that ran, its input, the state it found

vars == <<image, originalImage, imageState, history, historyIndex, isCropping,
          cropStart, cropEnd, resizeWidth, resizeHeight, originalDimensions,
          maintainAspectRatio, pending, latestLoad, lastOp>>

-----------------------------------------------------------------------------
(* Bounds of the model. *)

\* the longest history the model builds
MaxHistory == 3
\* the most reads and decodes in flight at once
MaxPending == 2
\* the most crop/resize commits a picture derives from
MaxCommits == 1

-----------------------------------------------------------------------------
(* Values. *)

\* A nullable value is the empty sequence (null) or a one-element sequence.
Null == << >>
Some(v) == <<v>>
Val(o) == o[1]

Min(a, b) == IF a <= b THEN a ELSE b
Max(a, b) == IF a >= b THEN a ELSE b
Abs(a) == IF a < 0 THEN -a ELSE a

RECURSIVE GCD(_, _)
GCD(a, b) == IF b = 0 THEN a ELSE GCD(b, a % b)

\* A JavaScript number: a rational <<numerator, denominator>> in lowest terms,
\* denominator positive.  The inputs chosen keep every quotient dyadic, so the
\* doubles of the program are these rationals exactly.
Num(n, d) ==
  LET s == IF d < 0 THEN -1 ELSE 1
      g == GCD(Abs(n), Abs(d))
  IN  IF n = 0 THEN <<0, 1>> ELSE <<(s * n) \div g, (s * d) \div g>>
Whole(n) == <<n, 1>>
NumAdd(a, b) == Num(a[1] * b[2] + b[1] * a[2], a[2] * b[2])
NumMul(a, b) == Num(a[1] * b[1], a[2] * b[2])
NumDiv(a, b) == Num(a[1] * b[2], a[2] * b[1])
NumLess(a, b) == a[1] * b[2] < b[1] * a[2]
\* truncation toward zero
NumTrunc(a) == IF a[1] >= 0 THEN a[1] \div a[2] ELSE -((-a[1]) \div a[2])
\* Math.round: the nearest integer, halves toward +infinity
MathRound(a) == (2 * a[1] + a[2]) \div (2 * a[2])

\* const defaultState: ImageState
defaultState ==
  [brightness |-> 100, contrast |-> 100, saturation |-> 100, rotation |-> 0,
   flipH |-> FALSE, flipV |-> FALSE, filter |-> "none", crop |-> Null]

\* the values of the filters table
FilterValues ==
  {"none", "grayscale", "sepia", "invert", "blur", "vintage", "cool", "warm"}

\* { ...imageState, ...newState }: the fields of newState override
Merge(state, newState) ==
  [f \in DOMAIN state \cup DOMAIN newState |->
     IF f \in DOMAIN newState THEN newState[f] ELSE state[f]]

\* array[i] of JavaScript, i 0-based: undefined outside the array
Undefined == [undefined |-> TRUE]
At(arr, i) == IF i + 1 \in DOMAIN arr THEN arr[i + 1] ELSE Undefined

-----------------------------------------------------------------------------
(* The files a user can pick or drop, and pictures. *)

Files == {"A", "B", "L", "X"}

\* file.type, as the browser reports it
FileType(f) == IF f = "X" THEN "text/plain" ELSE "image/png"
\* whether the bytes decode as an image
FileDecodes(f) == f # "X"
FileWidth(f) ==
  IF f = "A" THEN 4 ELSE IF f = "B" THEN 2 ELSE IF f = "L" THEN 1000 ELSE 0
FileHeight(f) ==
  IF f = "A" THEN 2 ELSE IF f = "B" THEN 2 ELSE IF f = "L" THEN 500 ELSE 0

\* A data URL is modelled by the picture it encodes: the file its pixels come
\* from, its pixel size, and how many canvas commits (crop/resize) produced it.
\* The data URL of a file that does not decode has size 0 x 0.
FilePicture(f) ==
  [file |-> f, width |-> FileWidth(f), height |-> FileHeight(f), commits |-> 0]

\* img.src = url fires onload when the URL decodes to a picture, onerror otherwise.
\* A canvas of zero width or height encodes as "data:,", which does not decode.
Decodes(pic) == FileDecodes(pic.file) /\ pic.width > 0 /\ pic.height > 0

StartsWithImage(type) == type \in {"image/png", "image/jpeg", "image/gif", "image/webp"}

-----------------------------------------------------------------------------
(* History variables. *)

\* the session state a handler finds when it starts
Snapshot ==
  [image |-> image, originalImage |-> originalImage, imageState |-> imageState,
   history |-> history, historyIndex |-> historyIndex,
   originalDimensions |-> originalDimensions]

Op(name, arg) == [op |-> name, arg |-> arg, pre |-> Snapshot]

-----------------------------------------------------------------------------
(* State after construction: the useState initial values. *)

Init ==
  /\ image = Null
  /\ originalImage = Null
  /\ imageState = defaultState
  /\ history = <<defaultState>>
  /\ historyIndex = 0
  /\ isCropping = FALSE
  /\ cropStart = Null
  /\ cropEnd = Null
  /\ resizeWidth = Whole(0)
  /\ resizeHeight = Whole(0)
  /\ originalDimensions = [width |-> Whole(0), height |-> Whole(0)]
  /\ maintainAspectRatio = TRUE
  /\ pending = {}
  /\ latestLoad = Null
  /\ lastOp = Op("init", Null)

-----------------------------------------------------------------------------
(* History: updateState, undo, redo. *)

\* a slice that ends one entry early
SliceShort(arr, end) == SubSeq(arr, 1, Min(end - 1, Len(arr)))

\* history.slice(0, end): the first end entries
Slice0(arr, end) == SubSeq(arr, 1, Min(end, Len(arr)))

\* a push that keeps the entries after the cursor
NewHistoryUntruncated(updatedState) == Append(history, updatedState)

\* newHistory of updateState: the entries up to the cursor, then updatedState
NewHistory(updatedState) == Append(Slice0(history, historyIndex + 1), updatedState)

\* an undo guard that admits the first entry
CanUndoAtZero == historyIndex >= 0

\* if (historyIndex > 0)
CanUndo == historyIndex > 0

\* a redo guard that admits the last entry
CanRedoAtLast == historyIndex < Len(history)

\* if (historyIndex < history.length - 1)
CanRedo == historyIndex < Len(history) - 1

\* an undo that reads the entry at the cursor
UndoStateAtCursor == At(history, historyIndex)

\* history[historyIndex - 1]
UndoState == At(history, historyIndex - 1)

\* a redo that reads the entry at the cursor
RedoStateAtCursor == At(history, historyIndex)

\* history[historyIndex + 1]
RedoState == At(history, historyIndex + 1)

\* updateState(newState), from a control that is enabled only with an image
updateState(newState) ==
  LET updatedState == Merge(imageState, newState)
      newHistory == NewHistory(updatedState)
  IN  /\ image # Null
      /\ Len(newHistory) <= MaxHistory
      /\ imageState' = updatedState
      /\ history' = newHistory
      /\ historyIndex' = Len(newHistory) - 1
      /\ lastOp' = Op("updateState", newState)
      /\ UNCHANGED <<image, originalImage, isCropping, cropStart, cropEnd,
                     resizeWidth, resizeHeight, originalDimensions,
                     maintainAspectRatio, pending, latestLoad>>

\* the values the model moves a slider to
SliderSamples == {150}
\* the values the model moves the fine rotation slider to
FineRotationSamples == {180}
\* the filter buttons the model presses
FilterSamples == {"sepia"}

BrightnessSlider == \E v \in SliderSamples : updateState([brightness |-> v])
ContrastSlider == \E v \in SliderSamples : updateState([contrast |-> v])
SaturationSlider == \E v \in SliderSamples : updateState([saturation |-> v])
RotateLeft == updateState([rotation |-> imageState.rotation - 90])
\* a +90 button that wraps the rotation into -180..179
RotateRightWrapping ==
  updateState([rotation |-> ((imageState.rotation + 90 + 180) % 360) - 180])
RotateRight == updateState([rotation |-> imageState.rotation + 90])
FlipH == updateState([flipH |-> ~imageState.flipH])
FlipV == updateState([flipV |-> ~imageState.flipV])
FineRotation == \E v \in FineRotationSamples : updateState([rotation |-> v])
FilterButton == \E f \in FilterSamples : updateState([filter |-> f])

\* an undo that also drops the entries after the new cursor
undoTruncating ==
  /\ IF CanUndo
       THEN /\ historyIndex' = historyIndex - 1
            /\ imageState' = UndoState
            /\ history' = Slice0(history, historyIndex)
       ELSE UNCHANGED <<historyIndex, imageState, history>>
  /\ lastOp' = Op("undo", Null)
  /\ UNCHANGED <<image, originalImage, isCropping, cropStart, cropEnd,
                 resizeWidth, resizeHeight, originalDimensions,
                 maintainAspectRatio, pending, latestLoad>>

\* undo and redo: the callbacks, whose own guards decide; their buttons are
\* disabled exactly where the guards fail
undo ==
  /\ IF CanUndo
       THEN /\ historyIndex' = historyIndex - 1
            /\ imageState' = UndoState
       ELSE UNCHANGED <<historyIndex, imageState>>
  /\ lastOp' = Op("undo", Null)
  /\ UNCHANGED <<image, originalImage, history, isCropping, cropStart, cropEnd,
                 resizeWidth, resizeHeight, originalDimensions,
                 maintainAspectRatio, pending, latestLoad>>

\* what redo follows: the handler before it and, when that was undo, the state
\* that undo found
Undone == [prev |-> lastOp.op,
           undone |-> IF lastOp.op = "undo" THEN Some(lastOp.pre) ELSE Null]

redo ==
  /\ IF CanRedo
       THEN /\ historyIndex' = historyIndex + 1
            /\ imageState' = RedoState
       ELSE UNCHANGED <<historyIndex, imageState>>
  /\ lastOp' = Op("redo", Undone)
  /\ UNCHANGED <<image, originalImage, history, isCropping, cropStart, cropEnd,
                 resizeWidth, resizeHeight, originalDimensions,
                 maintainAspectRatio, pending, latestLoad>>

-----------------------------------------------------------------------------
(* Load: handleFileUpload, handleDrop and their completions. *)

ReadTask(f) == [kind |-> "read", file |-> f]
DecodeTask(pic) == [kind |-> "decode", src |-> pic]

\* handleFileUpload: any file the picker returns is read
handleFileUpload(f) ==
  /\ Cardinality(pending) < MaxPending
  /\ pending' = pending \cup {ReadTask(f)}
  /\ latestLoad' = Some(f)
  /\ lastOp' = Op("handleFileUpload", f)
  /\ UNCHANGED <<image, originalImage, imageState, history, historyIndex,
                 isCropping, cropStart, cropEnd, resizeWidth, resizeHeight,
                 originalDimensions, maintainAspectRatio>>

\* handleDrop: a file whose type does not start with "image/" is ignored
handleDrop(f) ==
  /\ Cardinality(pending) < MaxPending
  /\ IF StartsWithImage(FileType(f))
       THEN /\ pending' = pending \cup {ReadTask(f)}
            /\ latestLoad' = Some(f)
       ELSE UNCHANGED <<pending, latestLoad>>
  /\ lastOp' = Op("handleDrop", f)
  /\ UNCHANGED <<image, originalImage, imageState, history, historyIndex,
                 isCropping, cropStart, cropEnd, resizeWidth, resizeHeight,
                 originalDimensions, maintainAspectRatio>>

\* reader.onload of either handler: the data URL is installed and its decode starts
readerOnload(t) ==
  LET dataUrl == FilePicture(t.file)
  IN  /\ t.kind = "read"
      /\ image' = Some(dataUrl)
      /\ originalImage' = Some(dataUrl)
      /\ imageState' = defaultState
      /\ history' = <<defaultState>>
      /\ historyIndex' = 0
      /\ pending' = (pending \ {t}) \cup {DecodeTask(dataUrl)}
      /\ lastOp' = Op("readerOnload", t.file)
      /\ UNCHANGED <<isCropping, cropStart, cropEnd, resizeWidth, resizeHeight,
                     originalDimensions, maintainAspectRatio, latestLoad>>

\* img.onload of a load: the decoded size is recorded
loadImgOnload(t) ==
  /\ t.kind = "decode"
  /\ Decodes(t.src)
  /\ originalDimensions' = [width |-> Whole(t.src.width), height |-> Whole(t.src.height)]
  /\ resizeWidth' = Whole(t.src.width)
  /\ resizeHeight' = Whole(t.src.height)
  /\ pending' = pending \ {t}
  /\ lastOp' = Op("loadImgOnload", t.src.file)
  /\ UNCHANGED <<image, originalImage, imageState, history, historyIndex,
                 isCropping, cropStart, cropEnd, maintainAspectRatio, latestLoad>>

\* an Image whose src does not decode fires onerror, which no handler listens to
imgOnerror(t) ==
  /\ t.kind # "read"
  /\ ~Decodes(t.src)
  /\ pending' = pending \ {t}
  /\ lastOp' = Op("imgOnerror", t.src.file)
  /\ UNCHANGED <<image, originalImage, imageState, history, historyIndex,
                 isCropping, cropStart, cropEnd, resizeWidth, resizeHeight,
                 originalDimensions, maintainAspectRatio, latestLoad>>

\* a reset that restores the image and the ImageState but keeps the history
resetAllKeepingHistory ==
  /\ IF originalImage # Null
       THEN /\ image' = originalImage
            /\ imageState' = defaultState
       ELSE UNCHANGED <<image, imageState>>
  /\ lastOp' = Op("resetAll", Null)
  /\ UNCHANGED <<originalImage, history, historyIndex, isCropping, cropStart,
                 cropEnd, resizeWidth, resizeHeight, originalDimensions,
                 maintainAspectRatio, pending, latestLoad>>

\* resetAll
resetAll ==
  /\ IF originalImage # Null
       THEN /\ image' = originalImage
            /\ imageState' = defaultState
            /\ history' = <<defaultState>>
            /\ historyIndex' = 0
       ELSE UNCHANGED <<image, imageState, history, historyIndex>>
  /\ lastOp' = Op("resetAll", Null)
  /\ UNCHANGED <<originalImage, isCropping, cropStart, cropEnd, resizeWidth,
                 resizeHeight, originalDimensions, maintainAspectRatio, pending,
                 latestLoad>>

-----------------------------------------------------------------------------
(* Crop: the selection, applyCrop and its completion. *)

\* the box the layout gives the <img> (and the container div that wraps it): a
\* picture that decodes is shown at its natural size, one that does not as the
\* browser's placeholder
LayoutBox(pic) ==
  IF Decodes(pic) THEN [width |-> pic.width, height |-> pic.height]
                  ELSE [width |-> 2, height |-> 1]

\* imgElement.getBoundingClientRect(): the box that bounds the element after its
\* CSS transform; a rotation by an odd number of quarter turns swaps the sides
\* (the model rotates by multiples of 90 degrees only)
BoundingClientRect(box, rotation) ==
  IF (rotation \div 90) % 2 = 0 THEN box
                                ELSE [width |-> box.height, height |-> box.width]

\* the pointer positions the model samples, relative to the container
PointerSamples == {[x |-> 0, y |-> 0], [x |-> 2, y |-> 1], [x |-> 4, y |-> 2]}

\* Math.max(0, Math.min(v, limit))
Clamp(v, limit) == Max(0, Min(v, limit))

\* the crop button: setIsCropping(true), enabled only with an image
startCropping ==
  /\ image # Null
  /\ ~isCropping
  /\ isCropping' = TRUE
  /\ lastOp' = Op("startCropping", Null)
  /\ UNCHANGED <<image, originalImage, imageState, history, historyIndex,
                 cropStart, cropEnd, resizeWidth, resizeHeight,
                 originalDimensions, maintainAspectRatio, pending, latestLoad>>

\* handleCropMouseDown at a point of the container, which exists only with an image
handleCropMouseDown(p) ==
  /\ image # Null
  /\ p.x <= LayoutBox(Val(image)).width
  /\ p.y <= LayoutBox(Val(image)).height
  /\ IF isCropping
       THEN /\ cropStart' = Some(p)
            /\ cropEnd' = Some(p)
       ELSE UNCHANGED <<cropStart, cropEnd>>
  /\ lastOp' = Op("handleCropMouseDown", p)
  /\ UNCHANGED <<image, originalImage, imageState, history, historyIndex,
                 isCropping, resizeWidth, resizeHeight, originalDimensions,
                 maintainAspectRatio, pending, latestLoad>>

\* handleCropMouseMove: the point is clamped to the container
handleCropMouseMove(p) ==
  LET rect == LayoutBox(Val(image))
  IN  /\ image # Null
      /\ IF isCropping /\ cropStart # Null
           THEN cropEnd' = Some([x |-> Clamp(p.x, rect.width), y |-> Clamp(p.y, rect.height)])
           ELSE UNCHANGED cropEnd
      /\ lastOp' = Op("handleCropMouseMove", p)
      /\ UNCHANGED <<image, originalImage, imageState, history, historyIndex,
                     isCropping, cropStart, resizeWidth, resizeHeight,
                     originalDimensions, maintainAspectRatio, pending, latestLoad>>

\* handleCropMouseUp (also onMouseLeave): returns without an effect
handleCropMouseUp ==
  /\ image # Null
  /\ lastOp' = Op("handleCropMouseUp", Null)
  /\ UNCHANGED <<image, originalImage, imageState, history, historyIndex,
                 isCropping, cropStart, cropEnd, resizeWidth, resizeHeight,
                 originalDimensions, maintainAspectRatio, pending, latestLoad>>

\* the rectangle applyCrop computes, in source pixels
CropRect ==
  LET rect == BoundingClientRect(LayoutBox(Val(image)), imageState.rotation)
      scaleX == NumDiv(originalDimensions.width, Whole(rect.width))
      scaleY == NumDiv(originalDimensions.height, Whole(rect.height))
      s == Val(cropStart)
      e == Val(cropEnd)
  IN  [x |-> NumMul(Whole(Min(s.x, e.x)), scaleX),
       y |-> NumMul(Whole(Min(s.y, e.y)), scaleY),
       width |-> NumMul(Whole(Abs(e.x - s.x)), scaleX),
       height |-> NumMul(Whole(Abs(e.y - s.y)), scaleY)]

CropTask(pic, rect) == [kind |-> "crop", src |-> pic, rect |-> rect]

\* canvas.width = v: the number is truncated to an unsigned long, and a value
\* above 2^31 - 1 (a negative number wraps to one) sets the default
CanvasSize(v, default) == IF NumTrunc(v) < 0 THEN default ELSE NumTrunc(v)

\* applyCrop, on the Apply button that is shown while cropping
applyCrop ==
  /\ isCropping
  /\ IF cropStart = Null \/ cropEnd = Null \/ image = Null
       THEN UNCHANGED pending
       ELSE /\ Cardinality(pending) < MaxPending
            /\ Decodes(Val(image)) => Val(image).commits < MaxCommits
            /\ pending' = pending \cup {CropTask(Val(image), CropRect)}
  /\ lastOp' = Op("applyCrop", Null)
  /\ UNCHANGED <<image, originalImage, imageState, history, historyIndex,
                 isCropping, cropStart, cropEnd, resizeWidth, resizeHeight,
                 originalDimensions, maintainAspectRatio, latestLoad>>

\* what ctx.drawImage paints on the canvas of applyCrop: the rectangle of the
\* decoded image, under the context's initial filter and transform (applyCrop
\* sets neither ctx.filter nor a rotation or scale, as exportImage does)
CropRaster(t) ==
  [src |-> t.src, region |-> t.rect,
   rendered |-> [rotation |-> 0, flipH |-> FALSE, flipV |-> FALSE, filter |-> "none"]]

\* a crop completion that also resets the adjustments and their history
cropImgOnloadResetting(t) ==
  /\ t.kind = "crop"
  /\ Decodes(t.src)
  /\ image' = Some([file |-> t.src.file,
                    width |-> CanvasSize(t.rect.width, 300),
                    height |-> CanvasSize(t.rect.height, 150),
                    commits |-> t.src.commits + 1])
  /\ originalImage' = image'
  /\ originalDimensions' = [width |-> t.rect.width, height |-> t.rect.height]
  /\ resizeWidth' = t.rect.width
  /\ resizeHeight' = t.rect.height
  /\ isCropping' = FALSE
  /\ cropStart' = Null
  /\ cropEnd' = Null
  /\ imageState' = defaultState
  /\ history' = <<defaultState>>
  /\ historyIndex' = 0
  /\ pending' = pending \ {t}
  /\ lastOp' = Op("cropImgOnload", t)
  /\ UNCHANGED <<maintainAspectRatio, latestLoad>>

\* img.onload of applyCrop: the canvas is encoded and installed
cropImgOnload(t) ==
  LET croppedDataUrl ==
        [file |-> t.src.file,
         width |-> CanvasSize(t.rect.width, 300),
         height |-> CanvasSize(t.rect.height, 150),
         commits |-> t.src.commits + 1]
  IN  /\ t.kind = "crop"
      /\ Decodes(t.src)
      /\ image' = Some(croppedDataUrl)
      /\ originalImage' = Some(croppedDataUrl)
      /\ originalDimensions' = [width |-> t.rect.width, height |-> t.rect.height]
      /\ resizeWidth' = t.rect.width
      /\ resizeHeight' = t.rect.height
      /\ isCropping' = FALSE
      /\ cropStart' = Null
      /\ cropEnd' = Null
      /\ pending' = pending \ {t}
      /\ lastOp' = Op("cropImgOnload", t)
      /\ UNCHANGED <<imageState, history, historyIndex, maintainAspectRatio,
                     latestLoad>>

\* a cancel that leaves crop mode but keeps the selection
cancelCropKeepingSelection ==
  /\ isCropping
  /\ isCropping' = FALSE
  /\ lastOp' = Op("cancelCrop", Null)
  /\ UNCHANGED <<image, originalImage, imageState, history, historyIndex,
                 cropStart, cropEnd, resizeWidth, resizeHeight,
                 originalDimensions, maintainAspectRatio, pending, latestLoad>>

\* cancelCrop, on the Cancel button that is shown while cropping
cancelCrop ==
  /\ isCropping
  /\ isCropping' = FALSE
  /\ cropStart' = Null
  /\ cropEnd' = Null
  /\ lastOp' = Op("cancelCrop", Null)
  /\ UNCHANGED <<image, originalImage, imageState, history, historyIndex,
                 resizeWidth, resizeHeight, originalDimensions,
                 maintainAspectRatio, pending, latestLoad>>

-----------------------------------------------------------------------------
(* Resize: the two fields, the checkbox, handleResize and its completion. *)

Digits == <<"0", "1", "2", "3", "4", "5", "6", "7", "8", "9">>
IsDigit(c) == \E d \in DOMAIN Digits : Digits[d] = c
DigitValue(c) == (CHOOSE d \in DOMAIN Digits : Digits[d] = c) - 1

\* the value of the longest prefix of digits of a text, and its length
RECURSIVE DigitPrefix(_, _, _)
DigitPrefix(text, acc, n) ==
  IF text = << >> \/ ~IsDigit(Head(text))
    THEN [value |-> acc, length |-> n]
    ELSE DigitPrefix(Tail(text), 10 * acc + DigitValue(Head(text)), n + 1)

\* parseInt(value): an optional sign, then digits up to the first other
\* character; NaN when there is no digit.  A text is a sequence of characters.
ParseInt(text) ==
  LET neg == text # << >> /\ Head(text) = "-"
      body == IF text # << >> /\ Head(text) \in {"-", "+"} THEN Tail(text) ELSE text
      p == DigitPrefix(body, 0, 0)
  IN  [nan |-> p.length = 0, value |-> IF neg THEN -p.value ELSE p.value]

\* parseInt(value) || 0
ParseIntOr0(text) == IF ParseInt(text).nan THEN 0 ELSE ParseInt(text).value

\* the texts the model types into a resize field
ResizeTexts == {<<"2">>, <<"a">>}

\* a width change that takes the ratio width / height
handleWidthChangeInverted(value) ==
  LET newWidth == ParseIntOr0(value)
  IN  /\ image # Null
      /\ resizeWidth' = Whole(newWidth)
      /\ IF maintainAspectRatio /\ NumLess(Whole(0), originalDimensions.width)
           THEN LET ratio == NumDiv(originalDimensions.width, originalDimensions.height)
                IN  resizeHeight' = Whole(MathRound(NumMul(Whole(newWidth), ratio)))
           ELSE UNCHANGED resizeHeight
      /\ lastOp' = Op("handleWidthChange", value)
      /\ UNCHANGED <<image, originalImage, imageState, history, historyIndex,
                     isCropping, cropStart, cropEnd, originalDimensions,
                     maintainAspectRatio, pending, latestLoad>>

handleWidthChange(value) ==
  LET newWidth == ParseIntOr0(value)
  IN  /\ image # Null
      /\ resizeWidth' = Whole(newWidth)
      /\ IF maintainAspectRatio /\ NumLess(Whole(0), originalDimensions.width)
           THEN LET ratio == NumDiv(originalDimensions.height, originalDimensions.width)
                IN  resizeHeight' = Whole(MathRound(NumMul(Whole(newWidth), ratio)))
           ELSE UNCHANGED resizeHeight
      /\ lastOp' = Op("handleWidthChange", value)
      /\ UNCHANGED <<image, originalImage, imageState, history, historyIndex,
                     isCropping, cropStart, cropEnd, originalDimensions,
                     maintainAspectRatio, pending, latestLoad>>

handleHeightChange(value) ==
  LET newHeight == ParseIntOr0(value)
  IN  /\ image # Null
      /\ resizeHeight' = Whole(newHeight)
      /\ IF maintainAspectRatio /\ NumLess(Whole(0), originalDimensions.height)
           THEN LET ratio == NumDiv(originalDimensions.width, originalDimensions.height)
                IN  resizeWidth' = Whole(MathRound(NumMul(Whole(newHeight), ratio)))
           ELSE UNCHANGED resizeWidth
      /\ lastOp' = Op("handleHeightChange", value)
      /\ UNCHANGED <<image, originalImage, imageState, history, historyIndex,
                     isCropping, cropStart, cropEnd, originalDimensions,
                     maintainAspectRatio, pending, latestLoad>>

\* the checkbox: setMaintainAspectRatio(e.target.checked)
setMaintainAspectRatio ==
  /\ maintainAspectRatio' = ~maintainAspectRatio
  /\ lastOp' = Op("setMaintainAspectRatio", Null)
  /\ UNCHANGED <<image, originalImage, imageState, history, historyIndex,
                 isCropping, cropStart, cropEnd, resizeWidth, resizeHeight,
                 originalDimensions, pending, latestLoad>>

ResizeTask(pic, w, h) == [kind |-> "resize", src |-> pic, width |-> w, height |-> h]

\* handleResize, on a button that is enabled only with an image
handleResize ==
  /\ image # Null
  /\ Cardinality(pending) < MaxPending
  /\ Decodes(Val(image)) => Val(image).commits < MaxCommits
  /\ pending' = pending \cup {ResizeTask(Val(image), resizeWidth, resizeHeight)}
  /\ lastOp' = Op("handleResize", Null)
  /\ UNCHANGED <<image, originalImage, imageState, history, historyIndex,
                 isCropping, cropStart, cropEnd, resizeWidth, resizeHeight,
                 originalDimensions, maintainAspectRatio, latestLoad>>

\* a resize completion that keeps the stored original
resizeImgOnloadKeepingOriginal(t) ==
  /\ t.kind = "resize"
  /\ Decodes(t.src)
  /\ image' = Some([file |-> t.src.file,
                    width |-> CanvasSize(t.width, 300),
                    height |-> CanvasSize(t.height, 150),
                    commits |-> t.src.commits + 1])
  /\ originalDimensions' = [width |-> t.width, height |-> t.height]
  /\ pending' = pending \ {t}
  /\ lastOp' = Op("resizeImgOnload", t)
  /\ UNCHANGED <<originalImage, imageState, history, historyIndex, isCropping,
                 cropStart, cropEnd, resizeWidth, resizeHeight,
                 maintainAspectRatio, latestLoad>>

\* img.onload of handleResize: the canvas is encoded and installed
resizeImgOnload(t) ==
  LET resizedDataUrl ==
        [file |-> t.src.file,
         width |-> CanvasSize(t.width, 300),
         height |-> CanvasSize(t.height, 150),
         commits |-> t.src.commits + 1]
  IN  /\ t.kind = "resize"
      /\ Decodes(t.src)
      /\ image' = Some(resizedDataUrl)
      /\ originalImage' = Some(resizedDataUrl)
      /\ originalDimensions' = [width |-> t.width, height |-> t.height]
      /\ pending' = pending \ {t}
      /\ lastOp' = Op("resizeImgOnload", t)
      /\ UNCHANGED <<imageState, history, historyIndex, isCropping, cropStart,
                     cropEnd, resizeWidth, resizeHeight, maintainAspectRatio,
                     latestLoad>>

-----------------------------------------------------------------------------
(* Export: exportImage and its completion. *)

\* the formats of the export menu
Formats == {"png", "jpeg", "webp"}

\* what Math.cos and Math.sin return in place of 0, in absolute value: radians
\* is not the exact multiple of pi/2, so the result is a small positive number
\* (6.1e-17 for cos(pi/2)); the model takes 2^-20
Residue == <<1, 1048576>>

\* Math.abs(Math.cos(radians)) and Math.abs(Math.sin(radians)) for a rotation
\* by a multiple of 90 degrees: exactly 1 or 0 at 0 degrees, 1 or the residue
\* elsewhere
\* a cosine taken without Math.abs
SignedCos(rotation) ==
  IF (rotation \div 90) % 4 = 0 THEN Whole(1)
  ELSE IF (rotation \div 90) % 4 = 1 THEN Residue
  ELSE IF (rotation \div 90) % 4 = 2 THEN Whole(-1)
  ELSE <<-Residue[1], Residue[2]>>

AbsCos(rotation) ==
  IF (rotation \div 90) % 2 # 0 THEN Residue ELSE Whole(1)
AbsSin(rotation) ==
  IF (rotation \div 90) % 2 # 0 THEN Whole(1)
  ELSE IF rotation = 0 THEN Whole(0) ELSE Residue

ExportTask(pic, state, format) ==
  [kind |-> "export", src |-> pic, state |-> state, format |-> format]

\* exportImage(format): if (!image) return; the menu is enabled only with an image
exportImage(format) ==
  /\ IF image = Null
       THEN UNCHANGED pending
       ELSE /\ Cardinality(pending) < MaxPending
            /\ pending' = pending \cup {ExportTask(Val(image), imageState, format)}
  /\ lastOp' = Op("exportImage", format)
  /\ UNCHANGED <<image, originalImage, imageState, history, historyIndex,
                 isCropping, cropStart, cropEnd, resizeWidth, resizeHeight,
                 originalDimensions, maintainAspectRatio, latestLoad>>

\* the file link.click() downloads
Download(t) ==
  LET sin == AbsSin(t.state.rotation)
      cos == AbsCos(t.state.rotation)
      newWidth == NumAdd(NumMul(Whole(t.src.width), cos), NumMul(Whole(t.src.height), sin))
      newHeight == NumAdd(NumMul(Whole(t.src.width), sin), NumMul(Whole(t.src.height), cos))
  IN  [download |-> <<"edited-image", t.format>>,
       mimeType |-> <<"image", t.format>>,
       width |-> CanvasSize(newWidth, 300),
       height |-> CanvasSize(newHeight, 150),
       rendered |-> t.state,
       src |-> t.src]

\* an export completion that installs the picture it rendered
exportImgOnloadInstalling(t) ==
  /\ t.kind = "export"
  /\ Decodes(t.src)
  /\ image' = Some([file |-> t.src.file, width |-> Download(t).width,
                    height |-> Download(t).height, commits |-> t.src.commits + 1])
  /\ pending' = pending \ {t}
  /\ lastOp' = Op("exportImgOnload", Download(t))
  /\ UNCHANGED <<originalImage, imageState, history, historyIndex,
                 isCropping, cropStart, cropEnd, resizeWidth, resizeHeight,
                 originalDimensions, maintainAspectRatio, latestLoad>>

\* img.onload of exportImage: the canvas is drawn, encoded and downloaded
exportImgOnload(t) ==
  /\ t.kind = "export"
  /\ Decodes(t.src)
  /\ pending' = pending \ {t}
  /\ lastOp' = Op("exportImgOnload", Download(t))
  /\ UNCHANGED <<image, originalImage, imageState, history, historyIndex,
                 isCropping, cropStart, cropEnd, resizeWidth, resizeHeight,
                 originalDimensions, maintainAspectRatio, latestLoad>>

-----------------------------------------------------------------------------
(* The session: every handler, on every input the model samples. *)

Next ==
  \/ BrightnessSlider
  \/ ContrastSlider
  \/ SaturationSlider
  \/ RotateLeft
  \/ RotateRight
  \/ FlipH
  \/ FlipV
  \/ FineRotation
  \/ FilterButton
  \/ undo
  \/ redo
  \/ resetAll
  \/ \E f \in Files : handleFileUpload(f)
  \/ \E f \in Files : handleDrop(f)
  \/ \E t \in pending : readerOnload(t)
  \/ \E t \in pending : loadImgOnload(t)
  \/ \E t \in pending : imgOnerror(t)
  \/ startCropping
  \/ \E p \in PointerSamples : handleCropMouseDown(p)
  \/ \E p \in PointerSamples : handleCropMouseMove(p)
  \/ handleCropMouseUp
  \/ applyCrop
  \/ \E t \in pending : cropImgOnload(t)
  \/ cancelCrop
  \/ \E v \in ResizeTexts : handleWidthChange(v)
  \/ \E v \in ResizeTexts : handleHeightChange(v)
  \/ setMaintainAspectRatio
  \/ handleResize
  \/ \E t \in pending : resizeImgOnload(t)
  \/ \E f \in Formats : exportImage(f)
  \/ \E t \in pending : exportImgOnload(t)

Spec == Init /\ [][Next]_vars

-----------------------------------------------------------------------------
(* Sessions of one kind of use, each a part of Next small enough to explore   *)
(* exhaustively.                                                              *)

\* no read or decode is in flight
Idle == pending = {}

\* One picture is loaded and adjusted: every adjustment control, undo, redo
\* and Reset All.
NextEdit ==
  \/ BrightnessSlider
  \/ ContrastSlider
  \/ SaturationSlider
  \/ RotateLeft
  \/ RotateRight
  \/ FlipH
  \/ FlipV
  \/ FineRotation
  \/ FilterButton
  \/ undo
  \/ redo
  \/ resetAll
  \/ handleFileUpload("A")
  \/ \E t \in pending : readerOnload(t)
  \/ \E t \in pending : loadImgOnload(t)

SpecEdit == Init /\ [][NextEdit]_vars

\* One picture is loaded, adjusted, cropped, resized and reset, the user
\* waiting for each read and decode to complete before the next input.
NextCommit ==
  \/ Idle /\ BrightnessSlider
  \/ Idle /\ RotateRight
  \/ Idle /\ undo
  \/ Idle /\ redo
  \/ Idle /\ resetAll
  \/ Idle /\ handleFileUpload("A")
  \/ Idle /\ startCropping
  \/ Idle /\ \E p \in PointerSamples : handleCropMouseDown(p)
  \/ Idle /\ \E p \in PointerSamples : handleCropMouseMove(p)
  \/ Idle /\ applyCrop
  \/ Idle /\ cancelCrop
  \/ Idle /\ \E v \in ResizeTexts : handleWidthChange(v)
  \/ Idle /\ handleResize
  \/ \E t \in pending : readerOnload(t)
  \/ \E t \in pending : loadImgOnload(t)
  \/ \E t \in pending : imgOnerror(t)
  \/ \E t \in pending : cropImgOnload(t)
  \/ \E t \in pending : resizeImgOnload(t)

SpecCommit == Init /\ [][NextCommit]_vars

\* Files are picked and dropped while earlier loads are still in flight.
NextLoad ==
  \/ BrightnessSlider
  \/ undo
  \/ resetAll
  \/ \E f \in {"A", "B", "X"} : handleFileUpload(f)
  \/ \E f \in {"A", "B", "X"} : handleDrop(f)
  \/ \E t \in pending : readerOnload(t)
  \/ \E t \in pending : loadImgOnload(t)
  \/ \E t \in pending : imgOnerror(t)

SpecLoad == Init /\ [][NextLoad]_vars

\* what the resize fields hand to their handlers in the resize sessions: whole
\* numbers, zero, a negative number and the empty text of a cleared field
ResizeFieldTexts ==
  {<<"3">>, <<"0">>, <<"-", "2">>, << >>, <<"1", "0", "0">>, <<"4", "0", "0">>}

\* One picture (4x2 or 1000x500) is loaded and resized through the two fields,
\* the checkbox and Apply Resize, the user waiting for each read and decode to
\* complete before the next input.
NextResize ==
  \/ Idle /\ \E f \in {"A", "L"} : handleFileUpload(f)
  \/ Idle /\ \E v \in ResizeFieldTexts : handleWidthChange(v)
  \/ Idle /\ \E v \in ResizeFieldTexts : handleHeightChange(v)
  \/ Idle /\ setMaintainAspectRatio
  \/ Idle /\ handleResize
  \/ \E t \in pending : readerOnload(t)
  \/ \E t \in pending : loadImgOnload(t)
  \/ \E t \in pending : imgOnerror(t)
  \/ \E t \in pending : resizeImgOnload(t)

SpecResize == Init /\ [][NextResize]_vars

\* A picture (or a file that is no picture) is loaded, rotated and exported in
\* every format, the exports completing in any order while the rotation changes.
NextExport ==
  \/ RotateLeft
  \/ RotateRight
  \/ Idle /\ \E f \in {"A", "X"} : handleFileUpload(f)
  \/ \E t \in pending : readerOnload(t)
  \/ \E t \in pending : loadImgOnload(t)
  \/ \E t \in pending : imgOnerror(t)
  \/ \E f \in Formats : exportImage(f)
  \/ \E t \in pending : exportImgOnload(t)

SpecExport == Init /\ [][NextExport]_vars

\* no read of a file and no decode of a loaded file is in flight
LoadIdle == \A t \in pending : t.kind \notin {"read", "decode"}

\* Pictures are loaded, cropped and resized, a load starting while a commit is
\* still in flight.  Loads do not overlap each other, and a commit starts only
\* when no load is in flight, so a commit in flight during a load was
\* triggered before it.
NextRace ==
  \/ LoadIdle /\ \E f \in {"A", "B"} : handleFileUpload(f)
  \/ \E t \in pending : readerOnload(t)
  \/ \E t \in pending : loadImgOnload(t)
  \/ \E t \in pending : imgOnerror(t)
  \/ LoadIdle /\ startCropping
  \/ LoadIdle /\ \E p \in PointerSamples : handleCropMouseDown(p)
  \/ LoadIdle /\ \E p \in PointerSamples : handleCropMouseMove(p)
  \/ LoadIdle /\ applyCrop
  \/ \E t \in pending : cropImgOnload(t)
  \/ LoadIdle /\ handleResize
  \/ \E t \in pending : resizeImgOnload(t)

SpecRace == Init /\ [][NextRace]_vars

\* One picture is loaded, adjusted, cropped and exported, with every pointer
\* event of the container, the user waiting for each read and decode to
\* complete before the next input.
NextHistory ==
  \/ Idle /\ BrightnessSlider
  \/ Idle /\ FlipH
  \/ Idle /\ undo
  \/ Idle /\ redo
  \/ Idle /\ resetAll
  \/ Idle /\ handleFileUpload("A")
  \/ Idle /\ startCropping
  \/ Idle /\ \E p \in PointerSamples : handleCropMouseDown(p)
  \/ Idle /\ \E p \in PointerSamples : handleCropMouseMove(p)
  \/ Idle /\ handleCropMouseUp
  \/ Idle /\ applyCrop
  \/ Idle /\ cancelCrop
  \/ Idle /\ \E f \in Formats : exportImage(f)
  \/ \E t \in pending : readerOnload(t)
  \/ \E t \in pending : loadImgOnload(t)
  \/ \E t \in pending : imgOnerror(t)
  \/ \E t \in pending : cropImgOnload(t)
  \/ \E t \in pending : exportImgOnload(t)

SpecHistory == Init /\ [][NextHistory]_vars

\* A picture is loaded and cropped, crop mode entered, left and entered again
\* and pointer events arriving while loads and crop commits are in flight.
\* Apply is pressed only when no load is in flight: a crop scaled by the
\* dimensions of the picture before shrinks them again at every reload,
\* without bound.
NextCrop ==
  \/ handleFileUpload("A")
  \/ \E t \in pending : readerOnload(t)
  \/ \E t \in pending : loadImgOnload(t)
  \/ \E t \in pending : imgOnerror(t)
  \/ startCropping
  \/ \E p \in PointerSamples : handleCropMouseDown(p)
  \/ \E p \in PointerSamples : handleCropMouseMove(p)
  \/ handleCropMouseUp
  \/ LoadIdle /\ applyCrop
  \/ cancelCrop
  \/ \E t \in pending : cropImgOnload(t)

SpecCrop == Init /\ [][NextCrop]_vars

-----------------------------------------------------------------------------
(* Properties of the session. *)

\* whether s is an ImageState: a record with the fields of defaultState
IsImageState(s) == DOMAIN s = DOMAIN defaultState

\* the last handler was a crop or resize completion
CommitCompleted == lastOp.op \in {"cropImgOnload", "resizeImgOnload"}

\* C1: in every reachable state, whatever loads, adjustments, undos, redos,
\* crop and resize commits and resets led to it, the history cursor is an
\* index of the history: 0 <= historyIndex < history.length.
C1_CursorInHistory == 0 <= historyIndex /\ historyIndex < Len(history)

\* a crop commit has completed on a history of three entries with the cursor
\* on the middle one
C1_Witness ==
  /\ lastOp.op = "cropImgOnload"
  /\ Len(history) = 3
  /\ historyIndex = 1

\* C2: in every reachable state the current ImageState is the history entry
\* at the cursor.
C2_CurrentIsEntryAtCursor == imageState = At(history, historyIndex)

\* an undo has moved the cursor back to an entry that differs from the one it left
C2_Witness ==
  /\ lastOp.op = "undo"
  /\ historyIndex = lastOp.pre.historyIndex - 1
  /\ imageState # lastOp.pre.imageState
  /\ Val(image).commits > 0

\* C3: updateState(patch) leaves the history equal to the old entries 0..cursor
\* followed by one new entry, the old current state with the fields of the
\* patch overridden; the entries after the old cursor are gone and the cursor
\* is the new last index.
C3_PushAppendsAfterCursor ==
  lastOp.op = "updateState" =>
    LET pre == lastOp.pre
        patch == lastOp.arg
        kept == pre.historyIndex + 1
    IN  /\ Len(history) = kept + 1
        /\ \A i \in 1..kept : history[i] = pre.history[i]
        /\ \A f \in DOMAIN defaultState :
             history[kept + 1][f] =
               IF f \in DOMAIN patch THEN patch[f] ELSE pre.imageState[f]
        /\ IsImageState(history[kept + 1])
        /\ historyIndex = kept
        /\ imageState = history[kept + 1]

\* a push from the middle of a history of three entries
C3_Witness ==
  /\ lastOp.op = "updateState"
  /\ Len(lastOp.pre.history) = 3
  /\ lastOp.pre.historyIndex = 1
  /\ imageState # lastOp.pre.history[3]

\* C4: after pushes, an undo immediately followed by a redo leaves the current
\* ImageState equal to the one before the undo.  (After pushes the cursor is on
\* the last entry when the undo runs.)
C4_UndoRedoRoundTrip ==
  (/\ lastOp.op = "redo"
   /\ lastOp.arg.undone # Null
   /\ Val(lastOp.arg.undone).historyIndex = Len(Val(lastOp.arg.undone).history) - 1)
    => imageState = Val(lastOp.arg.undone).imageState

\* a redo has followed an undo that left the last of three entries for a
\* different one
C4_Witness ==
  /\ lastOp.op = "redo"
  /\ lastOp.arg.undone # Null
  /\ Val(lastOp.arg.undone).historyIndex = 2
  /\ Len(Val(lastOp.arg.undone).history) = 3
  /\ lastOp.pre.imageState # imageState

\* C5: a push made while entries after the cursor exist (after one or more
\* undos) discards all of them: right after it the cursor is the last index,
\* no entry of the old future is left, and redo finds nothing to redo; a redo
\* that follows the push changes nothing.
C5_PushDiscardsFuture ==
  /\ (lastOp.op = "updateState" /\ lastOp.pre.historyIndex < Len(lastOp.pre.history) - 1)
       => /\ Len(history) = lastOp.pre.historyIndex + 2
          /\ historyIndex = Len(history) - 1
          /\ ~CanRedo
  /\ (lastOp.op = "redo" /\ lastOp.arg.prev = "updateState")
       => /\ history = lastOp.pre.history
          /\ historyIndex = lastOp.pre.historyIndex
          /\ imageState = lastOp.pre.imageState

\* the example of the specification: from [s0, s1, s2] with the cursor back at
\* 0 after two undos, a push gives [s0, s3] with the cursor at 1
C5_Witness ==
  /\ lastOp.op = "updateState"
  /\ Len(lastOp.pre.history) = 3
  /\ lastOp.pre.historyIndex = 0
  /\ Len(history) = 2
  /\ historyIndex = 1
  /\ history[1] = lastOp.pre.history[1]
  /\ history[2] \notin {lastOp.pre.history[2], lastOp.pre.history[3]}

\* C6: undo with the cursor at 0, and redo with the cursor at the last index,
\* change nothing: the history, the cursor, the current ImageState and the
\* image with its recorded dimensions are as before, and the current state is
\* still an ImageState.
C6_BoundaryUndoRedoNoOp ==
  (\/ lastOp.op = "undo" /\ lastOp.pre.historyIndex = 0
   \/ lastOp.op = "redo" /\ lastOp.pre.historyIndex = Len(lastOp.pre.history) - 1)
    => /\ history = lastOp.pre.history
       /\ historyIndex = lastOp.pre.historyIndex
       /\ imageState = lastOp.pre.imageState
       /\ IsImageState(imageState)
       /\ image = lastOp.pre.image
       /\ originalImage = lastOp.pre.originalImage
       /\ originalDimensions = lastOp.pre.originalDimensions

\* with a picture loaded and three entries, a redo at the last index has run
C6_Witness ==
  /\ lastOp.op = "redo"
  /\ image # Null
  /\ Len(lastOp.pre.history) = 3
  /\ lastOp.pre.historyIndex = 2

C8_ResetRestoresDecoded ==
  (lastOp.op = "resetAll" /\ image # Null)
    => /\ Val(image).width = FileWidth(Val(image).file)
       /\ Val(image).height = FileHeight(Val(image).file)

\* C9: once the loads triggered have all completed, the image and the recorded
\* dimensions are those of the file whose load was triggered last.
C9_LatestLoadWins ==
  (/\ pending = {}
   /\ latestLoad # Null
   /\ FileDecodes(Val(latestLoad)))
    => /\ image = Some(FilePicture(Val(latestLoad)))
       /\ originalDimensions = [width |-> Whole(FileWidth(Val(latestLoad))),
                                height |-> Whole(FileHeight(Val(latestLoad)))]

\* C10: the load of a file that does not decode as an image leaves the image,
\* the ImageState, the history and the cursor of an existing session as they were.
C10_FailedLoadChangesNothing ==
  (/\ lastOp.op = "readerOnload"
   /\ ~FileDecodes(lastOp.arg)
   /\ lastOp.pre.image # Null)
    => /\ image = lastOp.pre.image
       /\ imageState = lastOp.pre.imageState
       /\ history = lastOp.pre.history
       /\ historyIndex = lastOp.pre.historyIndex

\* a resize target the commit may use: a number above zero
ValidTarget(n) == NumLess(Whole(0), n)

\* C11: a resize commit whose target width or height is not a positive number
\* (the field held no number, zero or a negative number) is refused: its
\* completion leaves the image and the recorded dimensions as they were, and
\* the resize fields hold positive values.
C11_InvalidResizeRefused ==
  (/\ lastOp.op = "resizeImgOnload"
   /\ ~(ValidTarget(lastOp.arg.width) /\ ValidTarget(lastOp.arg.height)))
    => /\ image = lastOp.pre.image
       /\ originalDimensions = lastOp.pre.originalDimensions
       /\ ValidTarget(resizeWidth)
       /\ ValidTarget(resizeHeight)

\* C12: a crop commit whose selection has zero width or zero height (a mouse
\* down with no drag) is refused: its completion leaves the image as it was,
\* crop mode stays active and the rest of the session is unchanged.
C12_DegenerateCropRefused ==
  (/\ lastOp.op = "cropImgOnload"
   /\ (lastOp.arg.rect.width = Whole(0) \/ lastOp.arg.rect.height = Whole(0)))
    => /\ image = lastOp.pre.image
       /\ originalImage = lastOp.pre.originalImage
       /\ originalDimensions = lastOp.pre.originalDimensions
       /\ isCropping
       /\ imageState = lastOp.pre.imageState
       /\ history = lastOp.pre.history
       /\ historyIndex = lastOp.pre.historyIndex

\* C13: export, in any format and in any state, its completion included,
\* leaves the image, the ImageState, the history and the cursor unchanged; with
\* no image loaded, exportImage starts nothing.
C13_ExportChangesNothing ==
  /\ lastOp.op \in {"exportImage", "exportImgOnload"}
       => /\ image = lastOp.pre.image
          /\ originalImage = lastOp.pre.originalImage
          /\ originalDimensions = lastOp.pre.originalDimensions
          /\ imageState = lastOp.pre.imageState
          /\ history = lastOp.pre.history
          /\ historyIndex = lastOp.pre.historyIndex
  /\ (lastOp.op = "exportImage" /\ lastOp.pre.image = Null)
       => \A t \in pending : t.kind # "export"

\* an export has completed after the rotation it captured was changed, with
\* three entries in the history
C13_Witness ==
  /\ lastOp.op = "exportImgOnload"
  /\ lastOp.arg.rendered # imageState
  /\ lastOp.arg.rendered.rotation = 90
  /\ Len(history) = 3

\* C16: for a W x H image and a rotation that is a multiple of 90 degrees
\* (reached by +90/-90 presses or the slider), the exported canvas is W x H
\* when the rotation is congruent to 0 or 180 modulo 360 and H x W when it is
\* congruent to 90 or 270.
C16_ExportedCanvasBoundsRotation ==
  lastOp.op = "exportImgOnload" =>
    LET d == lastOp.arg
        quarter == (d.rendered.rotation \div 90) % 4
    IN  /\ d.rendered.rotation % 90 = 0
        /\ quarter \in {0, 2} => (d.width = d.src.width /\ d.height = d.src.height)
        /\ quarter \in {1, 3} => (d.width = d.src.height /\ d.height = d.src.width)

\* the 4x2 picture rotated by +90 has been exported as 2x4
C16_Witness ==
  /\ lastOp.op = "exportImgOnload"
  /\ lastOp.arg.rendered.rotation = 90
  /\ lastOp.arg.src.width = 4
  /\ lastOp.arg.src.height = 2
  /\ lastOp.arg.width = 2
  /\ lastOp.arg.height = 4

\* the rectangle r, in source pixels, lies inside the picture pic
InsideSource(r, pic) ==
  /\ ~NumLess(r.x, Whole(0))
  /\ ~NumLess(r.y, Whole(0))
  /\ ~NumLess(Whole(pic.width), NumAdd(r.x, r.width))
  /\ ~NumLess(Whole(pic.height), NumAdd(r.y, r.height))

\* C14: for every crop commit, in every ImageState (a non-zero rotation
\* included) and for every pair of pointer samples, the crop rectangle computed
\* in source pixels lies inside the source image: 0 <= x, 0 <= y,
\* x + width <= sourceWidth and y + height <= sourceHeight.
C14_CropRectInsideSource ==
  \A t \in pending : t.kind = "crop" => InsideSource(t.rect, t.src)

\* the selection of the last applyCrop starts at the center of the displayed
\* image and extends to the right and downwards
SelectionFromCenter ==
  /\ lastOp.op = "applyCrop"
  /\ image # Null /\ cropStart # Null /\ cropEnd # Null
  /\ Decodes(Val(image))
  /\ 2 * Val(cropStart).x = LayoutBox(Val(image)).width
  /\ 2 * Val(cropStart).y = LayoutBox(Val(image)).height
  /\ Val(cropEnd).x >= Val(cropStart).x
  /\ Val(cropEnd).y >= Val(cropStart).y

\* C15: a pointer position at the exact center of the displayed image maps,
\* with the scale factors the crop commit uses, to the source point
\* (sourceWidth / 2, sourceHeight / 2), in every ImageState: a selection that
\* starts there gives a crop rectangle whose corner is that point.
C15_CenterMapsToCenter ==
  SelectionFromCenter =>
    \A t \in pending : t.kind = "crop" =>
      /\ t.rect.x = Num(t.src.width, 2)
      /\ t.rect.y = Num(t.src.height, 2)

\* r is a whole number nearest to the quotient of the numbers n and d
NearestTo(r, n, d) ==
  LET twice == NumMul(Whole(2), NumDiv(n, d))
  IN  /\ r[2] = 1
      /\ ~NumLess(twice, Whole(2 * r[1] - 1))
      /\ ~NumLess(Whole(2 * r[1] + 1), twice)

\* the recorded dimensions are W x H with W, H > 0
RecordedPositive ==
  /\ NumLess(Whole(0), originalDimensions.width)
  /\ NumLess(Whole(0), originalDimensions.height)

\* C17: with maintain-aspect-ratio on and recorded dimensions W x H (W, H > 0),
\* setting the resize width to w sets the resize height to w * H / W rounded
\* to the nearest integer, and setting the resize height to h sets the resize
\* width to h * W / H rounded to the nearest integer; for 1000x500, width 400
\* gives height 200 and height 100 gives width 200.
C17_AspectRatioResize ==
  LET W == originalDimensions.width
      H == originalDimensions.height
      large == [width |-> Whole(1000), height |-> Whole(500)]
  IN  /\ (lastOp.op = "handleWidthChange" /\ maintainAspectRatio /\ RecordedPositive)
           => /\ resizeWidth = Whole(ParseIntOr0(lastOp.arg))
              /\ NearestTo(resizeHeight, NumMul(resizeWidth, H), W)
              /\ (originalDimensions = large /\ resizeWidth = Whole(400))
                   => resizeHeight = Whole(200)
      /\ (lastOp.op = "handleHeightChange" /\ maintainAspectRatio /\ RecordedPositive)
           => /\ resizeHeight = Whole(ParseIntOr0(lastOp.arg))
              /\ NearestTo(resizeWidth, NumMul(resizeHeight, W), H)
              /\ (originalDimensions = large /\ resizeHeight = Whole(100))
                   => resizeWidth = Whole(200)

\* the example of the specification: on the 1000x500 picture, 100 has been
\* typed into the height field and the width field has become 200
C17_Witness ==
  /\ lastOp.op = "handleHeightChange"
  /\ maintainAspectRatio
  /\ originalDimensions = [width |-> Whole(1000), height |-> Whole(500)]
  /\ Val(image).width = 1000
  /\ resizeHeight = Whole(100)
  /\ resizeWidth = Whole(200)

\* C18: in every reachable state with an image loaded, the recorded
\* originalDimensions are the pixel dimensions of the current image; they are
\* never stale, also between the two completions of a load and after crop or
\* resize commits.
C18_RecordedDimensionsAreActual ==
  image # Null =>
    originalDimensions = [width |-> Whole(Val(image).width),
                          height |-> Whole(Val(image).height)]

\* C19: whenever a load completes (its reader.onload installs the image) or
\* Reset All is pressed with an image loaded, the history becomes [default],
\* the cursor 0 and the current ImageState the default, whatever the history
\* was before.
C19_LoadAndResetStartHistory ==
  (\/ lastOp.op = "readerOnload"
   \/ lastOp.op = "resetAll" /\ lastOp.pre.image # Null)
    => /\ history = <<defaultState>>
       /\ historyIndex = 0
       /\ imageState = defaultState

\* Reset All has been pressed on a history of three entries with the cursor on
\* the middle one, an adjusted state
C19_Witness ==
  /\ lastOp.op = "resetAll"
  /\ lastOp.pre.image # Null
  /\ Len(lastOp.pre.history) = 3
  /\ lastOp.pre.historyIndex = 1
  /\ lastOp.pre.imageState # defaultState

\* C20: a crop or resize commit triggered while picture A is the image, whose
\* rasterization completes after a load of picture B triggered later has
\* completed, does not replace B: once every completion has run, the image
\* comes from the file of the load triggered last, not from a superseded one.
\* (Checked where no commit is triggered while a load is in flight, so the
\* load triggered last is later than every commit on another picture.)
C20_StaleCommitDoesNotReplaceLoad ==
  (pending = {} /\ latestLoad # Null) => Val(image).file = Val(latestLoad)

\* the handlers that push an entry, and those that start the history afresh
PushOps == {"updateState"}
RestartOps == {"readerOnload", "resetAll"}

\* C21: no history entry is changed after it is created.  Every transition
\* either leaves the history unchanged (undo, redo, export, crop mode, pointer
\* events and every other handler that is no push, load or reset), or keeps
\* the entries 0..cursor and replaces the rest by one appended entry (push), or
\* replaces the history by [default] (load, reset); an undo or redo that
\* finds an entry to go to moves the cursor by exactly one.
C21_HistoryEntriesImmutable ==
  LET pre == lastOp.pre
  IN  /\ lastOp.op \notin PushOps \cup RestartOps => history = pre.history
      /\ lastOp.op \in PushOps
           => /\ Len(history) = pre.historyIndex + 2
              /\ \A i \in 1..(pre.historyIndex + 1) : history[i] = pre.history[i]
      /\ lastOp.op \in RestartOps
           => IF lastOp.op = "resetAll" /\ pre.image = Null
                THEN history = pre.history
                ELSE history = <<defaultState>> /\ historyIndex = 0
      /\ (lastOp.op = "undo" /\ pre.historyIndex > 0)
           => historyIndex = pre.historyIndex - 1
      /\ (lastOp.op = "redo" /\ pre.historyIndex < Len(pre.history) - 1)
           => historyIndex = pre.historyIndex + 1

\* an undo from the last of three entries has moved the cursor to the middle
\* one and left all three entries in place, on a cropped picture
C21_Witness ==
  /\ lastOp.op = "undo"
  /\ Len(lastOp.pre.history) = 3
  /\ lastOp.pre.historyIndex = 2
  /\ historyIndex = 1
  /\ history = lastOp.pre.history
  /\ Val(image).commits > 0

\* the filter, rotation and flips of an ImageState
Rendering(state) ==
  [rotation |-> state.rotation, flipH |-> state.flipH, flipV |-> state.flipV,
   filter |-> state.filter]

\* the part of the unrotated picture pic that the screen shows inside the
\* selection r (in source pixels) when the picture is displayed under state:
\* a flip mirrors the picture about its middle
ShownInSelection(r, pic, state) ==
  [x |-> IF state.flipH THEN NumAdd(Whole(pic.width), NumMul(Whole(-1), NumAdd(r.x, r.width)))
                        ELSE r.x,
   y |-> IF state.flipV THEN NumAdd(Whole(pic.height), NumMul(Whole(-1), NumAdd(r.y, r.height)))
                        ELSE r.y,
   width |-> r.width, height |-> r.height]

\* C22: a crop commit rasterizes the selected rectangle of the image as it is
\* rendered, with the filter, rotation and flips of the current ImageState
\* applied, so the committed pixels are the ones the user selected on screen
\* (for a selection of positive width and height).
C22_CropRasterizesRendered ==
  (/\ lastOp.op = "cropImgOnload"
   /\ Decodes(lastOp.arg.src)
   /\ ValidTarget(lastOp.arg.rect.width)
   /\ ValidTarget(lastOp.arg.rect.height))
    => LET raster == CropRaster(lastOp.arg)
           state == lastOp.pre.imageState
       IN  /\ raster.rendered = Rendering(state)
           /\ state.rotation = 0
                => raster.region = ShownInSelection(lastOp.arg.rect, raster.src, state)

\* the fields of the ImageState other than f are what they were before the
\* last handler
OnlyChanged(f) ==
  \A g \in DOMAIN defaultState \ {f} : imageState[g] = lastOp.pre.imageState[g]

\* C23: each press of a coarse rotation button changes the rotation by exactly
\* +90 or -90, with no wraparound or clamping (the result may lie outside
\* -180..180), and each flip toggle inverts its own boolean; nothing else of
\* the ImageState changes.  (A push that sets the rotation by another amount
\* is the fine rotation slider, set to one of its samples.)
C23_CoarseRotationAndFlips ==
  lastOp.op = "updateState" =>
    LET before == lastOp.pre.imageState
        patch == lastOp.arg
    IN  /\ "rotation" \in DOMAIN patch
             => /\ \/ imageState.rotation - before.rotation \in {90, -90}
                   \/ patch.rotation \in FineRotationSamples
                /\ imageState.rotation = patch.rotation
                /\ OnlyChanged("rotation")
        /\ "flipH" \in DOMAIN patch
             => imageState.flipH = ~before.flipH /\ OnlyChanged("flipH")
        /\ "flipV" \in DOMAIN patch
             => imageState.flipV = ~before.flipV /\ OnlyChanged("flipV")

\* a press of +90 at rotation 180 has given 270, outside -180..180
C23_Witness ==
  /\ lastOp.op = "updateState"
  /\ lastOp.pre.imageState.rotation = 180
  /\ imageState.rotation = 270
  /\ Len(history) = 3

\* the pointer handlers of the container
PointerOps == {"handleCropMouseDown", "handleCropMouseMove", "handleCropMouseUp"}

\* C24: the crop selection exists only while crop mode is active: in every
\* reachable state, if cropStart or cropEnd is set then isCropping is true;
\* a pointer event received while crop mode is inactive leaves the selection
\* as it was, unset.
C24_SelectionOnlyWhileCropping ==
  /\ (cropStart # Null \/ cropEnd # Null) => isCropping
  /\ (lastOp.op \in PointerOps /\ ~isCropping)
       => cropStart = Null /\ cropEnd = Null

\* a mouse down has arrived after a crop commit that was triggered with a
\* selection has completed and ended crop mode
C24_Witness ==
  /\ lastOp.op = "handleCropMouseDown"
  /\ ~isCropping
  /\ image # Null
  /\ Val(image).commits = 1
  /\ Decodes(Val(image))

\* C25: in every reachable state the image and the stored original image are
\* the same value, because load, crop commit and resize commit set both
\* together; so Reset All never changes the image.
C25_ImageIsOriginalImage ==
  /\ image = originalImage
  /\ lastOp.op = "resetAll" => image = lastOp.pre.image

\* Reset All has been pressed on a resized picture under an adjusted state
C25_Witness ==
  /\ lastOp.op = "resetAll"
  /\ image # Null
  /\ Val(image).commits = 1
  /\ Val(image).width # FileWidth(Val(image).file)
  /\ lastOp.pre.imageState # defaultState

====
